---- MODULE Spec2Model ----
(***************************************************************************)
(* Model of src/OV/System.cpp (XCSoar, OpenVario system settings):         *)
(* the backlight brightness accessors over the sysfs file                  *)
(* /sys/class/backlight/lcd/brightness and the dropbear.socket (SSH)       *)
(* toggles that run /bin/systemctl.                                        *)
(*                                                                         *)
(* Text is modelled as a sequence of one-character strings, so that        *)
(* formatting (fmt::format_int) and parsing (atoi) are real conversions.   *)
(***************************************************************************)
EXTENDS Integers, Sequences, FiniteSets, TLC

(***************************************************************************)
(* Bounds of the model.                                                    *)
(***************************************************************************)
\* longest text another writer (the backlight driver, a shell) leaves in
\* the brightness file
MaxFileLen == 2
\* how far the arguments of a call reach beyond the ranges 1..10 and 0..255
Margin == 1

(***************************************************************************)
(* Program constants.                                                      *)
(***************************************************************************)
\* sizeof(line) in OpenvarioGetBrightness
LineSize == 4
\* int result = 10
DefaultBrightness == 10
\* if (value < 1) { value = 1; }
MinBrightness == 1
\* if (value > 10) { value = 10; }
MaxBrightness == 10
\* number of values of uint_least8_t (8 bits on the supported targets)
Uint8Range == 256

Digits == <<"0", "1", "2", "3", "4", "5", "6", "7", "8", "9">>
DigitChars == {Digits[i] : i \in 1..10}

\* characters the other writers of the file use
Alphabet == {"1", "0", "a", "-"}

RECURSIVE TextsUpTo(_)
TextsUpTo(n) ==
  IF n = 0 THEN {<<>>}
  ELSE LET shorter == TextsUpTo(n - 1)
       IN  shorter \cup {Append(t, c) : t \in {s \in shorter : Len(s) = n - 1}, c \in Alphabet}

FileTexts == TextsUpTo(MaxFileLen)

\* the brightness file: whether the path exists, and its text
Absent == [exists |-> FALSE, text |-> <<>>]
Present(t) == [exists |-> TRUE, text |-> t]
Files == {Absent} \cup {Present(t) : t \in FileTexts}

\* dropbear.socket as the service manager holds it
Services == [enabled : BOOLEAN, active : BOOLEAN]

\* arguments of the callers of OpenvarioSetBrightness, before the conversion
\* to the parameter type
BrightnessInputs ==
  (MinBrightness - 1 - Margin .. MaxBrightness + Margin)
    \cup (Uint8Range - 1 - Margin .. Uint8Range + MaxBrightness + Margin)

VARIABLES
  file,     \* /sys/class/backlight/lcd/brightness: [exists, text]
  service,  \* dropbear.socket in the service manager: [enabled, active]
  lastOp,   \* the last call (or outside change) and what it did
  prev      \* the call before it

vars == <<file, service, lastOp, prev>>

(***************************************************************************)
(* Conversions.                                                            *)
(***************************************************************************)
\* implicit conversion of an int to uint_least8_t (parameter and return type)
ToUint8(v) == v % Uint8Range

DigitOf(n) == Digits[n + 1]

\* fmt::format_int{value}.c_str(): the decimal text of a non-negative value
RECURSIVE format_int(_)
format_int(n) ==
  IF n < 10 THEN <<DigitOf(n)>>
  ELSE Append(format_int(n \div 10), DigitOf(n % 10))

DigitValue(c) == CHOOSE d \in 0..9 : Digits[d + 1] = c

\* value of the longest prefix of digits of s, continuing from acc
RECURSIVE ParseDigits(_, _)
ParseDigits(s, acc) ==
  IF s = <<>> \/ Head(s) \notin DigitChars THEN acc
  ELSE ParseDigits(Tail(s), acc * 10 + DigitValue(Head(s)))

RECURSIVE SkipSpace(_)
SkipSpace(s) ==
  IF s # <<>> /\ Head(s) \in {" ", "\n", "\t"} THEN SkipSpace(Tail(s)) ELSE s

\* atoi(line): leading white space, an optional sign, then digits; 0 when no
\* digits follow
atoi(line) ==
  LET s == SkipSpace(line)
  IN  IF s = <<>> THEN 0
      ELSE IF Head(s) = "-" THEN 0 - ParseDigits(Tail(s), 0)
      ELSE IF Head(s) = "+" THEN ParseDigits(Tail(s), 0)
      ELSE ParseDigits(s, 0)

Min(a, b) == IF a < b THEN a ELSE b

(***************************************************************************)
(* The text-file store (system/FileUtil.hpp).                              *)
(***************************************************************************)
\* File::ReadString(path, buffer, size): fails when the path cannot be
\* opened, else leaves at most size - 1 characters and a terminator
ReadString(f, size) ==
  IF ~f.exists THEN [ok |-> FALSE, line |-> <<>>]
  ELSE [ok |-> TRUE, line |-> SubSeq(f.text, 1, Min(Len(f.text), size - 1))]

\* File::WriteExisting(path, value): overwrites the file with value when the
\* path exists, never creates it
WriteExisting(f, value) ==
  IF ~f.exists THEN [ok |-> FALSE, file |-> f]
  ELSE [ok |-> TRUE, file |-> Present(value)]

(***************************************************************************)
(* Brightness.                                                             *)
(***************************************************************************)
\* char line[2]: only one character of the file is read
OpenvarioGetBrightness_ShortLine(f) ==
  LET r      == ReadString(f, 2)
      result == IF r.ok THEN atoi(r.line) ELSE DefaultBrightness
  IN  ToUint8(result)

\* OpenvarioGetBrightness(): int result = 10; replaced by atoi(line) when the
\* read succeeds; returned as uint_least8_t
OpenvarioGetBrightness(f) ==
  LET r      == ReadString(f, LineSize)
      result == IF r.ok THEN atoi(r.line) ELSE DefaultBrightness
  IN  ToUint8(result)

\* the upper clamp left out
Clamp_LowOnly(value) ==
  IF value < MinBrightness THEN MinBrightness ELSE value

\* the two clamps on the uint_least8_t parameter
Clamp(value) ==
  LET low == IF value < MinBrightness THEN MinBrightness ELSE value
  IN  IF low > MaxBrightness THEN MaxBrightness ELSE low

\* the value written with a call that creates the file
OpenvarioSetBrightness_Creates(value, f) ==
  LET text == format_int(Clamp(value))
  IN  [text |-> text, file |-> Present(text)]

\* OpenvarioSetBrightness(value): the text handed to File::WriteExisting and
\* the file afterwards; the result of the write is dropped
OpenvarioSetBrightness(value, f) ==
  LET text == format_int(Clamp(value))
  IN  [text |-> text, file |-> WriteExisting(f, text).file]

(***************************************************************************)
(* The service manager and the command runner (system/Process.hpp).        *)
(***************************************************************************)
\* how a command that changes the unit ends: done, refused without effect,
\* or (the --now forms) stopped after the first half
Outcomes == {"ok", "fail", "partial"}

\* /bin/systemctl <cmd> dropbear.socket: exit status and the unit afterwards
Systemctl(cmd, outcome, s) ==
  CASE cmd = "is-enabled" -> [exit0 |-> s.enabled, svc |-> s]
    [] cmd = "is-active" -> [exit0 |-> s.active, svc |-> s]
    [] cmd = "disable" ->
         IF outcome = "ok" THEN [exit0 |-> TRUE, svc |-> [s EXCEPT !.enabled = FALSE]]
         ELSE [exit0 |-> FALSE, svc |-> s]
    [] cmd = "start" ->
         IF outcome = "ok" THEN [exit0 |-> TRUE, svc |-> [s EXCEPT !.active = TRUE]]
         ELSE [exit0 |-> FALSE, svc |-> s]
    [] cmd = "enable --now" ->
         IF outcome = "ok" THEN [exit0 |-> TRUE, svc |-> [enabled |-> TRUE, active |-> TRUE]]
         ELSE IF outcome = "partial" THEN [exit0 |-> FALSE, svc |-> [s EXCEPT !.enabled = TRUE]]
         ELSE [exit0 |-> FALSE, svc |-> s]
    [] cmd = "disable --now" ->
         IF outcome = "ok" THEN [exit0 |-> TRUE, svc |-> [enabled |-> FALSE, active |-> FALSE]]
         ELSE IF outcome = "partial" THEN [exit0 |-> FALSE, svc |-> [s EXCEPT !.enabled = FALSE]]
         ELSE [exit0 |-> FALSE, svc |-> s]

\* Run(argv...): spawn, wait, true iff the exit status is 0
Run(cmd, outcome, s) ==
  LET r == Systemctl(cmd, outcome, s)
  IN  [cmd |-> cmd, ok |-> r.exit0, svc |-> r.svc]

Issued(r) == [cmd |-> r.cmd, ok |-> r.ok]

\* the two checks in the other order
OpenvarioGetSSHStatus_ActiveFirst(s) ==
  LET active == Run("is-active", "ok", s)
  IN  IF active.ok
      THEN [ret |-> "TEMPORARY", log |-> <<Issued(active)>>, svc |-> active.svc]
      ELSE LET enabled == Run("is-enabled", "ok", active.svc)
           IN  IF enabled.ok
               THEN [ret |-> "ENABLED", log |-> <<Issued(active), Issued(enabled)>>,
                     svc |-> enabled.svc]
               ELSE [ret |-> "DISABLED", log |-> <<Issued(active), Issued(enabled)>>,
                     svc |-> enabled.svc]

\* both checks run before either result is looked at
OpenvarioGetSSHStatus_Eager(s) ==
  LET enabled == Run("is-enabled", "ok", s)
      active  == Run("is-active", "ok", enabled.svc)
  IN  [ret |-> IF enabled.ok THEN "ENABLED"
               ELSE IF active.ok THEN "TEMPORARY" ELSE "DISABLED",
       log |-> <<Issued(enabled), Issued(active)>>,
       svc |-> active.svc]

\* OpenvarioGetSSHStatus()
OpenvarioGetSSHStatus(s) ==
  LET enabled == Run("is-enabled", "ok", s)
  IN  IF enabled.ok
      THEN [ret |-> "ENABLED", log |-> <<Issued(enabled)>>, svc |-> enabled.svc]
      ELSE LET active == Run("is-active", "ok", enabled.svc)
           IN  IF active.ok
               THEN [ret |-> "TEMPORARY", log |-> <<Issued(enabled), Issued(active)>>,
                     svc |-> active.svc]
               ELSE [ret |-> "DISABLED", log |-> <<Issued(enabled), Issued(active)>>,
                     svc |-> active.svc]

\* || in place of &&
OpenvarioEnableSSH_Or(temporary, o1, o2, s) ==
  IF temporary
  THEN LET disable == Run("disable", o1, s)
       IN  IF disable.ok
           THEN [ret |-> TRUE, log |-> <<Issued(disable)>>, svc |-> disable.svc]
           ELSE LET start == Run("start", o2, disable.svc)
                IN  [ret |-> start.ok, log |-> <<Issued(disable), Issued(start)>>,
                     svc |-> start.svc]
  ELSE LET enable == Run("enable --now", o1, s)
       IN  [ret |-> enable.ok, log |-> <<Issued(enable)>>, svc |-> enable.svc]

\* & in place of &&: start runs whatever disable returned
OpenvarioEnableSSH_NoShortCircuit(temporary, o1, o2, s) ==
  IF temporary
  THEN LET disable == Run("disable", o1, s)
           start   == Run("start", o2, disable.svc)
       IN  [ret |-> disable.ok /\ start.ok,
            log |-> <<Issued(disable), Issued(start)>>, svc |-> start.svc]
  ELSE LET enable == Run("enable --now", o1, s)
       IN  [ret |-> enable.ok, log |-> <<Issued(enable)>>, svc |-> enable.svc]

\* the temporary branch without its disable step
OpenvarioEnableSSH_StartOnly(temporary, o1, o2, s) ==
  IF temporary
  THEN LET start == Run("start", o2, s)
       IN  [ret |-> start.ok, log |-> <<Issued(start)>>, svc |-> start.svc]
  ELSE LET enable == Run("enable --now", o1, s)
       IN  [ret |-> enable.ok, log |-> <<Issued(enable)>>, svc |-> enable.svc]

\* OpenvarioEnableSSH(temporary); o1, o2: how the commands end
OpenvarioEnableSSH(temporary, o1, o2, s) ==
  IF temporary
  THEN LET disable == Run("disable", o1, s)
       IN  IF ~disable.ok
           THEN [ret |-> FALSE, log |-> <<Issued(disable)>>, svc |-> disable.svc]
           ELSE LET start == Run("start", o2, disable.svc)
                IN  [ret |-> start.ok, log |-> <<Issued(disable), Issued(start)>>,
                     svc |-> start.svc]
  ELSE LET enable == Run("enable --now", o1, s)
       IN  [ret |-> enable.ok, log |-> <<Issued(enable)>>, svc |-> enable.svc]

\* disable without --now
OpenvarioDisableSSH_NoNow(o1, s) ==
  LET disable == Run("disable", o1, s)
  IN  [ret |-> disable.ok, log |-> <<Issued(disable)>>, svc |-> disable.svc]

\* OpenvarioDisableSSH()
OpenvarioDisableSSH(o1, s) ==
  LET disable == Run("disable --now", o1, s)
  IN  [ret |-> disable.ok, log |-> <<Issued(disable)>>, svc |-> disable.svc]

(***************************************************************************)
(* The calls, and the changes made from outside.                           *)
(***************************************************************************)
\* the file and the unit as a call finds them
Before == [file |-> file, service |-> service]

\* what the next call remembers of the one before it
Brief(op) == [op |-> op.op, arg |-> op.arg, ret |-> op.ret]

Record(op, arg, ret, log, text) ==
  /\ lastOp' = [op |-> op, arg |-> arg, ret |-> ret, log |-> log, text |-> text,
                before |-> Before]
  /\ prev' = Brief(lastOp)

\* a change from outside is no call: it leaves only its mark
Outside(op) ==
  /\ lastOp' = [op |-> op, arg |-> 0, ret |-> 0, log |-> <<>>, text |-> <<>>,
                before |-> [file |-> file', service |-> service']]
  /\ prev' = Brief(lastOp)

Init ==
  /\ file \in Files
  /\ service \in Services
  /\ lastOp = [op |-> "none", arg |-> 0, ret |-> 0, log |-> <<>>, text |-> <<>>,
               before |-> [file |-> file, service |-> service]]
  /\ prev = [op |-> "none", arg |-> 0, ret |-> 0]

GetBrightness ==
  /\ Record("get", 0, OpenvarioGetBrightness(file), <<>>, <<>>)
  /\ UNCHANGED <<file, service>>

\* v: the caller's integer, converted to the parameter type by the call
SetBrightness ==
  \E v \in BrightnessInputs :
    LET r == OpenvarioSetBrightness(ToUint8(v), file)
    IN  /\ file' = r.file
        /\ Record("set", v, 0, <<>>, r.text)
        /\ UNCHANGED service

GetSSHStatus ==
  LET r == OpenvarioGetSSHStatus(service)
  IN  /\ service' = r.svc
      /\ Record("status", 0, r.ret, r.log, <<>>)
      /\ UNCHANGED file

EnableSSH ==
  \E temporary \in BOOLEAN, o1 \in Outcomes, o2 \in Outcomes :
    LET r == OpenvarioEnableSSH(temporary, o1, o2, service)
    IN  /\ service' = r.svc
        /\ Record("enable", temporary, r.ret, r.log, <<>>)
        /\ UNCHANGED file

DisableSSH ==
  \E o1 \in Outcomes :
    LET r == OpenvarioDisableSSH(o1, service)
    IN  /\ service' = r.svc
        /\ Record("disable", 0, r.ret, r.log, <<>>)
        /\ UNCHANGED file

\* the backlight driver or another process rewrites, creates or removes the
\* brightness file
FileChanged ==
  \E f \in Files :
    /\ f # file
    /\ file' = f
    /\ UNCHANGED service
    /\ Outside("file")

\* the unit is changed by something other than these calls
ServiceChanged ==
  \E s \in Services :
    /\ s # service
    /\ service' = s
    /\ UNCHANGED file
    /\ Outside("service")

Next ==
  \/ GetBrightness
  \/ SetBrightness
  \/ GetSSHStatus
  \/ EnableSSH
  \/ DisableSSH
  \/ FileChanged
  \/ ServiceChanged

Spec == Init /\ [][Next]_vars

(***************************************************************************)
(* Properties.                                                             *)
(***************************************************************************)
\* min(max(v, 1), 10) over the integers
Within1To10(v) == IF v < 1 THEN 1 ELSE IF v > 10 THEN 10 ELSE v

\* a text without any digit
NonNumeric(t) == t # <<>> /\ \A i \in 1..Len(t) : t[i] \notin DigitChars

SetOnExistingFile == lastOp.op = "set" /\ lastOp.before.file.exists

\* C1 (as stated): for every integer v, negative ones and ones above 255
\* included, setBrightness(v) on an existing file writes the decimal text of
\* min(max(v, 1), 10).
C1_AnyInteger ==
  SetOnExistingFile =>
    /\ lastOp.text = format_int(Within1To10(lastOp.arg))
    /\ file = Present(format_int(Within1To10(lastOp.arg)))

\* C1 (amended): the call converts v to the 8-bit unsigned parameter first,
\* so the text written on an existing file is that of
\* min(max(v mod 256, 1), 10); for 0 <= v <= 255 this is min(max(v, 1), 10).
C1_ModuloParameter ==
  SetOnExistingFile =>
    /\ lastOp.text = format_int(Within1To10(lastOp.arg % 256))
    /\ file = Present(format_int(Within1To10(lastOp.arg % 256)))
    /\ (lastOp.arg \in 0..255 => file = Present(format_int(Within1To10(lastOp.arg))))

\* setBrightness(-1) on an existing file has written "10"
C1_Witness ==
  SetOnExistingFile /\ lastOp.arg = 0 - 1 /\ file = Present(<<"1", "0">>)

\* C2 (as stated): getBrightness returns 10 when the file is absent and when
\* it is present with non-numeric text.
C2_DefaultOnNonNumeric ==
  (lastOp.op = "get" /\ (~file.exists \/ NonNumeric(file.text))) => lastOp.ret = 10

\* C3: the status is decided by the exit statuses of the checks alone:
\* ENABLED when is-enabled succeeds (whatever the unit's activity),
\* TEMPORARY when is-enabled fails and is-active succeeds, DISABLED when
\* both fail.
C3_StatusFromChecks ==
  lastOp.op = "status" =>
    LET log == lastOp.log
        unit == lastOp.before.service
    IN  /\ Len(log) >= 1
        /\ log[1].cmd = "is-enabled"
        /\ log[1].ok => lastOp.ret = "ENABLED"
        /\ ~log[1].ok =>
             /\ Len(log) = 2
             /\ log[2].cmd = "is-active"
             /\ lastOp.ret = IF log[2].ok THEN "TEMPORARY" ELSE "DISABLED"
        /\ unit.enabled => lastOp.ret = "ENABLED"
        /\ (~unit.enabled /\ unit.active) => lastOp.ret = "TEMPORARY"
        /\ (~unit.enabled /\ ~unit.active) => lastOp.ret = "DISABLED"

\* the unit was enabled and active, and the status is ENABLED
C3_Witness ==
  /\ lastOp.op = "status"
  /\ lastOp.before.service = [enabled |-> TRUE, active |-> TRUE]
  /\ lastOp.ret = "ENABLED"

\* C4: enableService(true) issues disable and then, at most, start, and
\* returns true iff both were issued and exited 0; enableService(false)
\* issues the single command enable --now and returns its success.
C4_EnableResult ==
  lastOp.op = "enable" =>
    LET log == lastOp.log
    IN  IF lastOp.arg
        THEN /\ Len(log) \in {1, 2}
             /\ log[1].cmd = "disable"
             /\ Len(log) = 2 => log[2].cmd = "start"
             /\ lastOp.ret <=> (Len(log) = 2 /\ log[1].ok /\ log[2].ok)
        ELSE log = <<[cmd |-> "enable --now", ok |-> lastOp.ret]>>

\* enableService(true) has returned true after disable and start
C4_Witness ==
  /\ lastOp.op = "enable"
  /\ lastOp.arg
  /\ lastOp.ret
  /\ lastOp.log = <<[cmd |-> "disable", ok |-> TRUE], [cmd |-> "start", ok |-> TRUE]>>

FirstStepFailed ==
  /\ lastOp.op = "enable"
  /\ lastOp.arg
  /\ ~lastOp.log[1].ok

\* C5 (as stated): when disable fails in enableService(true), start is still
\* attempted and the result is false.
C5_StartStillAttempted ==
  FirstStepFailed =>
    /\ Len(lastOp.log) = 2
    /\ lastOp.log[2].cmd = "start"
    /\ lastOp.ret = FALSE

\* C5 (amended): when disable fails in enableService(true), start is not
\* attempted (no further command is issued) and the result is false.
C5_StartSkipped ==
  FirstStepFailed =>
    /\ Len(lastOp.log) = 1
    /\ lastOp.ret = FALSE

\* disable has failed in enableService(true)
C5_Witness ==
  FirstStepFailed /\ lastOp.log[1].cmd = "disable" /\ lastOp.ret = FALSE

GetAfterSet == lastOp.op = "get" /\ prev.op = "set"

\* C6: for 1 <= v <= 10 and an existing file, getBrightness() right after
\* setBrightness(v) returns v.
C6_RoundTrip ==
  (GetAfterSet /\ prev.arg \in 1..10 /\ file.exists) => lastOp.ret = prev.arg

\* getBrightness() has returned 10 right after setBrightness(10)
C6_Witness ==
  GetAfterSet /\ prev.arg = 10 /\ file.exists /\ lastOp.ret = 10

\* C7: disableService issues the one command disable --now and returns true
\* iff it exited 0.
C7_DisableResult ==
  lastOp.op = "disable" =>
    lastOp.log = <<[cmd |-> "disable --now", ok |-> lastOp.ret]>>

\* disableService() has returned false on a failed disable --now
C7_Witness ==
  /\ lastOp.op = "disable"
  /\ lastOp.ret = FALSE
  /\ lastOp.log = <<[cmd |-> "disable --now", ok |-> FALSE]>>

\* C8: with the file absent setBrightness(v) changes nothing: the file stays
\* absent, the unit is as before, and a getBrightness() right after it
\* returns the default 10.
C8_SetOnAbsentFile ==
  /\ (lastOp.op = "set" /\ ~lastOp.before.file.exists) =>
       /\ file = Absent
       /\ service = lastOp.before.service
  /\ (GetAfterSet /\ ~file.exists) => lastOp.ret = 10

\* getBrightness() has returned 10 right after a setBrightness(5) on an
\* absent file
C8_Witness ==
  GetAfterSet /\ prev.arg = 5 /\ file = Absent /\ lastOp.ret = 10

\* C9: getServiceStatus issues is-enabled and then, only when that failed,
\* is-active, no other command, and leaves the unit and the brightness file
\* as they were.
C9_StatusIsQueryOnly ==
  lastOp.op = "status" =>
    LET log == lastOp.log
    IN  /\ \A i \in 1..Len(log) : log[i].cmd \in {"is-enabled", "is-active"}
        /\ log[1].cmd = "is-enabled"
        /\ log[1].ok => Len(log) = 1
        /\ Len(log) > 1 => (Len(log) = 2 /\ log[2].cmd = "is-active")
        /\ service = lastOp.before.service
        /\ file = lastOp.before.file

\* is-enabled has succeeded on an active unit and nothing else was issued
C9_Witness ==
  /\ lastOp.op = "status"
  /\ service.active
  /\ lastOp.log = <<[cmd |-> "is-enabled", ok |-> TRUE]>>

StatusAfter(op) == lastOp.op = "status" /\ prev.op = op /\ prev.ret = TRUE

\* C10: getServiceStatus right after a successful call returns TEMPORARY
\* after enableService(true), ENABLED after enableService(false) and
\* DISABLED after disableService().
C10_StatusAfterToggle ==
  /\ (StatusAfter("enable") /\ prev.arg) => lastOp.ret = "TEMPORARY"
  /\ (StatusAfter("enable") /\ ~prev.arg) => lastOp.ret = "ENABLED"
  /\ StatusAfter("disable") => lastOp.ret = "DISABLED"

\* the status is TEMPORARY right after a successful enableService(true)
C10_Witness ==
  StatusAfter("enable") /\ prev.arg /\ lastOp.ret = "TEMPORARY"

====
